---- MODULE Spec2Model ----
(***************************************************************************)
(* marklassian: conversion of a marked token tree into an Atlassian        *)
(* Document Format (ADF) tree, src/lib/index.ts.                           *)
(*                                                                         *)
(* Tokens and ADF nodes are records; an optional field of the TypeScript   *)
(* types (tokens?, marks?, attrs?, checked?) is a field that is in the     *)
(* record's DOMAIN or not.  Strings are sequences of one-character         *)
(* strings, so that getSafeText's regular expressions are computed.        *)
(***************************************************************************)
EXTENDS Integers, Sequences, FiniteSets, TLC

VARIABLES tokens, doc, pc

vars ==
  <<tokens, doc, pc>>

RECURSIVE FlatSeq(_)
RECURSIVE getSafeText(_)
RECURSIVE getMarks(_, _)
RECURSIVE inlineToAdf(_)
RECURSIVE tokensToAdf(_)
RECURSIVE processListItem(_)
RECURSIVE processTaskListItemsInterleaved(_)
RECURSIVE ParagraphScan(_, _, _)
RECURSIVE ListItemScan(_, _, _)
RECURSIVE TaskItemScan(_, _, _)
RECURSIVE Regroup(_, _, _)
RECURSIVE ListSet(_, _, _, _)
RECURSIVE TaskSeqSet(_, _)
RECURSIVE InlineSet(_, _)
RECURSIVE InlineSeqSet(_, _)
RECURSIVE NodesOf(_)
RECURSIVE TextsOf(_)
RECURSIVE HoistedUnder(_)
RECURSIVE NestedTaskListsUnder(_)
RECURSIVE ItemSeqSet(_, _, _, _)
RECURSIVE NestedSeqSet(_, _, _, _)

(***************************************************************************)
(* Array helpers: Array.prototype.map / flatMap / filter / flat.           *)
(***************************************************************************)
MapSeq(F(_), s) ==
  [i \in 1..Len(s) |-> F(s[i])]

\* .flat(): one level of nesting is removed
FlatSeq(ss) ==
  IF ss = <<>> THEN <<>> ELSE Head(ss) \o FlatSeq(Tail(ss))

FlatMapSeq(F(_), s) ==
  FlatSeq(MapSeq(F, s))

Has(r, f) ==
  f \in DOMAIN r

(***************************************************************************)
(* getSafeText                                                             *)
(***************************************************************************)
IsSpace(c) ==
  c \in {" ", "\n", "\t"}

\* .replace(/\n$/, ""): one trailing newline is removed
StripTrailingNewline(s) ==
  IF Len(s) > 0 /\ s[Len(s)] = "\n" THEN SubSeq(s, 1, Len(s) - 1) ELSE s

\* .replace(/\n/g, " ")
NewlinesToSpaces(s) ==
  [i \in 1..Len(s) |-> IF s[i] = "\n" THEN " " ELSE s[i]]

\* .replace(/\s+/g, " "): every maximal run of whitespace becomes one space
CollapseSpaces(s) ==
  LET keep(i) == ~IsSpace(s[i]) \/ i = 1 \/ ~IsSpace(s[i - 1])
      idx == {i \in 1..Len(s) : keep(i)}
      nth(k) == CHOOSE i \in idx : Cardinality({j \in idx : j < i}) = k - 1
  IN  [k \in 1..Cardinality(idx) |->
         IF IsSpace(s[nth(k)]) THEN " " ELSE s[nth(k)]]

getSafeText(token) ==
  IF Has(token, "tokens") /\ Len(token.tokens) = 1 /\ Has(token.tokens[1], "text")
  THEN getSafeText(token.tokens[1])
  ELSE IF Has(token, "text")
       THEN CollapseSpaces(NewlinesToSpaces(StripTrailingNewline(token.text)))
       ELSE <<>>

(***************************************************************************)
(* getMarks.  The marks object (Record<string, AdfMark>) is the sequence   *)
(* of its values in insertion order, which is what Object.values returns;  *)
(* its keys are the mark types.                                            *)
(***************************************************************************)
HasMark(marks, key) ==
  \E i \in 1..Len(marks) : marks[i].type = key

\* marks[key] = mark: a new key is appended, an existing key keeps its place
PutMark(marks, mark) ==
  IF HasMark(marks, mark.type)
  THEN [i \in 1..Len(marks) |-> IF marks[i].type = mark.type THEN mark ELSE marks[i]]
  ELSE Append(marks, mark)

\* if (token.type === T && !marks[K]) marks[K] = { type: K }
AddIfAbsent(marks, token, tokenType, key) ==
  IF token.type = tokenType /\ ~HasMark(marks, key)
  THEN Append(marks, [type |-> key])
  ELSE marks

AddLink(marks, token) ==
  IF token.type = "link"
  THEN PutMark(marks, [type |-> "link", attrs |-> [href |-> token.href]])
  ELSE marks

OwnMarks(token, marks) ==
  AddIfAbsent(
    AddLink(
      AddIfAbsent(
        AddIfAbsent(
          AddIfAbsent(marks, token, "em", "em"),
          token, "strong", "strong"),
        token, "del", "strike"),
      token),
    token, "codespan", "code")

\* a faulty variant: the marks are returned without the code filter
ResolveMarksUnfiltered(marks) ==
  marks

\* Code Inline mark only supports a link or annotation mark
ResolveMarks(marks) ==
  IF HasMark(marks, "code")
  THEN SelectSeq(marks, LAMBDA m : m.type = "link" \/ m.type = "code")
  ELSE marks

getMarks(token, marks) ==
  LET m == OwnMarks(token, marks)
  IN  IF Has(token, "tokens") /\ Len(token.tokens) = 1
      THEN getMarks(token.tokens[1], m)
      ELSE ResolveMarks(m)

(***************************************************************************)
(* inlineToAdf                                                             *)
(***************************************************************************)
ChildTokens(token) ==
  IF Has(token, "tokens") THEN token.tokens ELSE <<>>

MarkedChildren(token, key) ==
  MapSeq(LAMBDA t : [type |-> "text", text |-> getSafeText(t),
                     marks |-> getMarks(t, <<[type |-> key]>>)],
         ChildTokens(token))

InlineNodes(token) ==
  CASE token.type = "text" ->
         IF Has(token, "tokens")
         THEN inlineToAdf(token.tokens)
         ELSE <<[type |-> "text", text |-> getSafeText(token)]>>
    [] token.type = "em" -> MarkedChildren(token, "em")
    [] token.type = "strong" -> MarkedChildren(token, "strong")
    [] token.type = "del" -> MarkedChildren(token, "strike")
    [] token.type \in {"link", "codespan"} ->
         <<[type |-> "text", text |-> getSafeText(token),
            marks |-> getMarks(token, <<>>)]>>
    [] token.type = "br" -> <<[type |-> "hardBreak"]>>
    [] OTHER -> <<>>

\* .filter: a text node whose text is falsy is removed
KeepInlineNode(node) ==
  ~(node.type = "text" /\ node.text = <<>>)

inlineToAdf(toks) ==
  SelectSeq(FlatMapSeq(InlineNodes, toks), KeepInlineNode)

(***************************************************************************)
(* generateLocalId: crypto.randomUUID().  The value is opaque; the tests   *)
(* of the repository replace it before comparing.                          *)
(***************************************************************************)
generateLocalId ==
  "uuid"

(***************************************************************************)
(* createMediaNode, processParagraph                                       *)
(***************************************************************************)
createMediaNode(token) ==
  [type |-> "mediaSingle",
   attrs |-> [layout |-> "center"],
   content |-> <<[type |-> "media",
                  attrs |-> [type |-> "external", url |-> token.href,
                             alt |-> IF Has(token, "text") THEN token.text ELSE <<>>]]>>]

Paragraph(cur) ==
  [type |-> "paragraph", content |-> inlineToAdf(cur)]

\* a faulty variant: an image does not flush the pending tokens, which all end
\* up in one paragraph after the images
ParagraphScanUnsplit(toks, outputNodes, cur) ==
  LET rest == cur \o SelectSeq(toks, LAMBDA t : t.type # "image")
  IN  outputNodes
        \o MapSeq(createMediaNode, SelectSeq(toks, LAMBDA t : t.type = "image"))
        \o (IF rest # <<>> THEN <<Paragraph(rest)>> ELSE <<>>)

\* the for loop of processParagraph and the flush after it
ParagraphScan(toks, outputNodes, cur) ==
  IF toks = <<>>
  THEN IF cur # <<>> THEN Append(outputNodes, Paragraph(cur)) ELSE outputNodes
  ELSE IF Head(toks).type = "image"
       THEN ParagraphScan(Tail(toks),
              (IF cur # <<>> THEN Append(outputNodes, Paragraph(cur)) ELSE outputNodes)
                \o <<createMediaNode(Head(toks))>>,
              <<>>)
       ELSE ParagraphScan(Tail(toks), outputNodes, Append(cur, Head(toks)))

processParagraph(toks) ==
  IF Len(toks) = 1 /\ toks[1].type = "image"
  THEN <<createMediaNode(toks[1])>>
  ELSE ParagraphScan(toks, <<>>, <<>>)

(***************************************************************************)
(* processTable                                                            *)
(***************************************************************************)
SpaceParagraph ==
  [type |-> "paragraph", content |-> <<[type |-> "text", text |-> <<" ">>]>>]

\* ADF requires at least one item in the content
PadCell(content) ==
  IF Len(content) = 0 THEN <<SpaceParagraph>> ELSE content

TableHeaderCell(header) ==
  [type |-> "tableHeader", content |-> processParagraph(header.tokens)]

TableBodyCell(cell) ==
  [type |-> "tableCell", content |-> PadCell(processParagraph(cell.tokens))]

TableBodyRow(row) ==
  [type |-> "tableRow", content |-> MapSeq(TableBodyCell, row)]

processTable(token) ==
  LET headers == MapSeq(TableHeaderCell, token.header)
      rows == MapSeq(TableBodyRow, token.rows)
      content == IF Len(headers) # 0
                 THEN <<[type |-> "tableRow", content |-> headers]>>
                 ELSE <<>>
  IN  [type |-> "table", content |-> content \o rows]

(***************************************************************************)
(* Lists                                                                   *)
(***************************************************************************)
\* item.task is truthy
IsTask(item) ==
  Has(item, "task") /\ item.task

\* a faulty variant: the some() conjunct is left out, so that an empty list is a task list
IsTaskListEvery(token) ==
  \A i \in 1..Len(token.items) : IsTask(token.items[i])

\* allItemsAreTasks && token.items.some(item => item.task)
IsTaskList(token) ==
  /\ \A i \in 1..Len(token.items) : IsTask(token.items[i])
  /\ \E i \in 1..Len(token.items) : IsTask(token.items[i])

\* token.start || 1
StartOrOne(token) ==
  IF Has(token, "start") /\ token.start # 0 THEN token.start ELSE 1

\* { type: ordered ? "orderedList" : "bulletList", attrs?, content: items.map(processListItem) }
OrdinaryList(token) ==
  IF token.ordered
  THEN [type |-> "orderedList", attrs |-> [order |-> StartOrOne(token)],
        content |-> MapSeq(processListItem, token.items)]
  ELSE [type |-> "bulletList", content |-> MapSeq(processListItem, token.items)]

InlineBearing(token) ==
  token.type \in {"text", "em", "strong", "del", "link", "codespan"}

ItemTokens(item) ==
  IF Has(item, "tokens") THEN item.tokens ELSE <<>>

\* a faulty variant: only an explicit false is TODO (item.checked === false ? "TODO" : "DONE")
TaskStateUnlessFalse(item) ==
  IF Has(item, "checked") /\ ~item.checked THEN "TODO" ELSE "DONE"

\* item.checked ? "DONE" : "TODO"
TaskState(item) ==
  IF Has(item, "checked") /\ item.checked THEN "DONE" ELSE "TODO"

\* the forEach of processTaskItem and the flush after it: inline runs are
\* pushed unwrapped, a nested list is skipped
TaskItemScan(toks, itemContent, cur) ==
  IF toks = <<>>
  THEN itemContent \o inlineToAdf(cur)
  ELSE IF InlineBearing(Head(toks))
       THEN TaskItemScan(Tail(toks), itemContent, Append(cur, Head(toks)))
       ELSE TaskItemScan(Tail(toks),
              itemContent \o inlineToAdf(cur)
                \o (IF Head(toks).type # "list" THEN tokensToAdf(<<Head(toks)>>) ELSE <<>>),
              <<>>)

processTaskItem(item) ==
  [type |-> "taskItem",
   attrs |-> [localId |-> generateLocalId, state |-> TaskState(item)],
   content |-> TaskItemScan(ItemTokens(item), <<>>, <<>>)]

\* the nested list of a list item: a taskList built with processTaskItem, or
\* an ordinary list
NestedListOfListItem(token) ==
  IF IsTaskList(token)
  THEN [type |-> "taskList", attrs |-> [localId |-> generateLocalId],
        content |-> MapSeq(processTaskItem, token.items)]
  ELSE OrdinaryList(token)

FlushParagraph(itemContent, cur) ==
  IF cur # <<>> THEN Append(itemContent, Paragraph(cur)) ELSE itemContent

\* the forEach of processListItem and the flush after it
ListItemScan(toks, itemContent, cur) ==
  IF toks = <<>>
  THEN FlushParagraph(itemContent, cur)
  ELSE IF InlineBearing(Head(toks))
       THEN ListItemScan(Tail(toks), itemContent, Append(cur, Head(toks)))
       ELSE ListItemScan(Tail(toks),
              FlushParagraph(itemContent, cur)
                \o (IF Head(toks).type = "list"
                    THEN <<NestedListOfListItem(Head(toks))>>
                    ELSE tokensToAdf(<<Head(toks)>>)),
              <<>>)

processListItem(item) ==
  [type |-> "listItem", content |-> ListItemScan(ItemTokens(item), <<>>, <<>>)]

(***************************************************************************)
(* Task-list extraction                                                    *)
(***************************************************************************)
TaskEntry(node) ==
  [type |-> "taskItem", node |-> node]

\* a faulty variant: the hoisted list is tagged as a task item
ExtractedEntryAsTask(node) ==
  [type |-> "taskItem", node |-> node]

ExtractedEntry(node) ==
  [type |-> "extracted", node |-> node]

EntriesOfType(entries, tag) ==
  SelectSeq(entries, LAMBDA n : n.type = tag)

EntryNodes(entries) ==
  MapSeq(LAMBDA n : n.node, entries)

\* a faulty variant: the lists hoisted out of a nested task list are dropped
NestedTaskListEntriesTasksOnly(nested) ==
  <<TaskEntry([type |-> "taskList", attrs |-> [localId |-> generateLocalId],
               content |-> EntryNodes(EntriesOfType(nested, "taskItem"))])>>

\* a nested task list: its task-tagged entries become one taskList entry,
\* followed by the entries the recursion tagged extracted
NestedTaskListEntries(nested) ==
  <<TaskEntry([type |-> "taskList", attrs |-> [localId |-> generateLocalId],
               content |-> EntryNodes(EntriesOfType(nested, "taskItem"))])>>
    \o EntriesOfType(nested, "extracted")

\* what one token of a task item pushes (the inner for loop)
NestedListEntries(token) ==
  IF token.type = "list"
  THEN IF IsTaskList(token)
       THEN NestedTaskListEntries(processTaskListItemsInterleaved(token.items))
       ELSE <<ExtractedEntry(OrdinaryList(token))>>
  ELSE <<>>

TaskItemEntries(item) ==
  <<TaskEntry(processTaskItem(item))>> \o FlatMapSeq(NestedListEntries, ItemTokens(item))

processTaskListItemsInterleaved(items) ==
  FlatMapSeq(TaskItemEntries, items)

flushTaskItems(result, currentTaskItems) ==
  IF Len(currentTaskItems) > 0
  THEN Append(result, [type |-> "taskList", attrs |-> [localId |-> generateLocalId],
                       content |-> currentTaskItems])
  ELSE result

\* a faulty variant: all task items first, then the hoisted lists (document order lost)
RegroupCollapsed(entries, result, currentTaskItems) ==
  flushTaskItems(result, EntryNodes(EntriesOfType(entries, "taskItem")))
    \o EntryNodes(EntriesOfType(entries, "extracted"))

\* the for loop of processTaskListItemsWithExtractionPreservingOrder and the
\* flush after it
Regroup(entries, result, currentTaskItems) ==
  IF entries = <<>>
  THEN flushTaskItems(result, currentTaskItems)
  ELSE IF Head(entries).type = "taskItem"
       THEN Regroup(Tail(entries), result, Append(currentTaskItems, Head(entries).node))
       ELSE Regroup(Tail(entries),
              Append(flushTaskItems(result, currentTaskItems), Head(entries).node),
              <<>>)

processTaskListItemsWithExtractionPreservingOrder(items) ==
  Regroup(processTaskListItemsInterleaved(items), <<>>, <<>>)

(***************************************************************************)
(* tokensToAdf                                                             *)
(***************************************************************************)
CodeBlock(token) ==
  IF Has(token, "lang") /\ token.lang # <<>>
  THEN [type |-> "codeBlock", attrs |-> [language |-> token.lang],
        content |-> <<[type |-> "text", text |-> token.text]>>]
  ELSE [type |-> "codeBlock", content |-> <<[type |-> "text", text |-> token.text]>>]

\* the token types the switch of tokensToAdf names
BlockTypes ==
  {"paragraph", "heading", "list", "code", "blockquote", "hr", "table"}

\* the nodes one block token maps to, after .filter(Boolean).flat()
BlockNodes(token) ==
  CASE token.type = "paragraph" -> processParagraph(ChildTokens(token))
    [] token.type = "heading" ->
         <<[type |-> "heading", attrs |-> [level |-> token.depth],
            content |-> inlineToAdf(ChildTokens(token))]>>
    [] token.type = "list" ->
         IF IsTaskList(token)
         THEN processTaskListItemsWithExtractionPreservingOrder(token.items)
         ELSE <<OrdinaryList(token)>>
    [] token.type = "code" -> <<CodeBlock(token)>>
    [] token.type = "blockquote" ->
         <<[type |-> "blockquote", content |-> tokensToAdf(ChildTokens(token))]>>
    [] token.type = "hr" -> <<[type |-> "rule"]>>
    [] token.type = "table" -> <<processTable(token)>>
    [] OTHER -> <<>>

\* a faulty variant: without .filter(Boolean) the null of the default case
\* stays in the array
tokensToAdfUnfiltered(toks) ==
  FlatMapSeq(LAMBDA t : IF t.type \in BlockTypes
                        THEN BlockNodes(t)
                        ELSE <<[type |-> "null"]>>,
             toks)

tokensToAdf(toks) ==
  FlatMapSeq(BlockNodes, toks)

\* the document's content; version and type are constants of the wrapper
markdownToAdf(toks) ==
  [version |-> 1, type |-> "doc", content |-> tokensToAdf(toks)]

(***************************************************************************)
(* Input token trees.  marked.lexer is outside the repository; the trees   *)
(* below are trees it produces.  The text of a list item is its path in    *)
(* the tree (item index, nested list index, item index, ...), so that the  *)
(* document order of the items is the lexicographic order of their texts.  *)
(***************************************************************************)
MaxItems == 4
MaxDepth == 4
MaxNested == 2

Digits ==
  <<"1", "2", "3", "4", "5", "6", "7", "8", "9">>

\* the block-level text token of a tight list item
ItemText(text) ==
  [type |-> "text", text |-> text, tokens |-> <<[type |-> "text", text |-> text]>>]

\* "- x" has task false and no checked; "- [ ] x" and "- [x] x" are tasks
ItemFlags(i) ==
  {[task |-> FALSE], [task |-> TRUE, checked |-> (i % 2 = 0)]}

ListItem(flags, text, lists) ==
  IF flags.task
  THEN [type |-> "list_item", task |-> TRUE, checked |-> flags.checked,
        tokens |-> <<ItemText(text)>> \o lists]
  ELSE [type |-> "list_item", task |-> FALSE, tokens |-> <<ItemText(text)>> \o lists]

ListToken(ordered, items) ==
  IF ordered
  THEN [type |-> "list", ordered |-> TRUE, start |-> 1, items |-> items]
  ELSE [type |-> "list", ordered |-> FALSE, items |-> items]

\* the lists of at most d levels with exactly n items in all, under path,
\* ordered or not as os allows
ListSet(path, n, d, os) ==
  IF d = 0
  THEN {}
  ELSE {ListToken(o, its) : o \in os, its \in ItemSeqSet(path, 1, n, d)}

\* the item sequences with exactly n items in all, from item index i on
ItemSeqSet(path, i, n, d) ==
  IF n = 0
  THEN {<<>>}
  ELSE UNION {UNION {{<<ListItem(f, Append(path, Digits[i]), ls)>> \o rest :
                        f \in ItemFlags(i),
                        ls \in NestedSeqSet(Append(path, Digits[i]), 1, k - 1, d - 1)} :
                     rest \in ItemSeqSet(path, i + 1, n - k, d)} :
              k \in 1..n}

\* the sequences of non-empty nested lists with exactly n items in all, from
\* nested list index j on.  Two lists that follow each other in one item
\* differ in their marker: the odd ones are bullet lists, the even ones
\* ordered lists
NestedSeqSet(path, j, n, d) ==
  (IF n = 0 THEN {<<>>} ELSE {})
    \cup (IF j <= MaxNested /\ d > 0
          THEN UNION {UNION {{<<l>> \o rest : l \in ListSet(Append(path, Digits[j]), q, d, {j % 2 = 0})} :
                             rest \in NestedSeqSet(path, j + 1, n - q, d)} :
                      q \in 1..n}
          ELSE {})

\* the documents that are one list of at most maxItems items in all
ListDocs(maxItems, maxDepth) ==
  UNION {{<<l>> : l \in ListSet(<<>>, n, maxDepth, BOOLEAN)} : n \in 0..maxItems}

(***************************************************************************)
(* Flat task lists: every item is a task without nested lists.  The        *)
(* checked flag is true, false or absent; the item's text is plain, or has *)
(* a strong part, or is followed by a blank-line token.                    *)
(***************************************************************************)
MaxTasks == 3

CheckedFlags ==
  {[task |-> TRUE], [task |-> TRUE, checked |-> FALSE], [task |-> TRUE, checked |-> TRUE]}

TaskTokens(text) ==
  {<<ItemText(text)>>,
   <<[type |-> "text", text |-> text \o <<" ", "x">>,
      tokens |-> <<[type |-> "strong", text |-> text,
                    tokens |-> <<[type |-> "text", text |-> text]>>],
                   [type |-> "text", text |-> <<" ", "x">>]>>]>>,
   <<ItemText(text), [type |-> "space"]>>}

TaskItemSet(i) ==
  {[type |-> "list_item", tokens |-> toks] @@ f :
     f \in CheckedFlags, toks \in TaskTokens(<<Digits[i]>>)}

\* the sequences of task items i..n
TaskSeqSet(i, n) ==
  IF i > n
  THEN {<<>>}
  ELSE {<<it>> \o rest : it \in TaskItemSet(i), rest \in TaskSeqSet(i + 1, n)}

TaskDocs(maxTasks) ==
  UNION {{<<ListToken(o, its)>> : o \in BOOLEAN, its \in TaskSeqSet(1, n)} :
         n \in 1..maxTasks}

(***************************************************************************)
(* Inline token trees of one paragraph.  em, strong, del and link carry    *)
(* nested tokens and the text of what they wrap; only a link can be empty. *)
(***************************************************************************)
MaxInline == 3
MaxInlineDepth == 3

InlineLeaves ==
  {[type |-> "text", text |-> <<"a">>],
   [type |-> "text", text |-> <<"\n">>],
   [type |-> "codespan", text |-> <<"c">>],
   [type |-> "br"],
   [type |-> "escape", text |-> <<"e">>]}

InnerText(toks) ==
  FlatMapSeq(LAMBDA t : IF Has(t, "text") THEN t.text ELSE <<>>, toks)

Wrapper(type, toks) ==
  IF type = "link"
  THEN [type |-> "link", href |-> <<"u">>, text |-> InnerText(toks), tokens |-> toks]
  ELSE [type |-> type, text |-> InnerText(toks), tokens |-> toks]

\* the inline tokens made of exactly n tokens, nested at most d deep
InlineSet(n, d) ==
  IF n = 1
  THEN InlineLeaves \cup (IF d > 0 THEN {Wrapper("link", <<>>)} ELSE {})
  ELSE IF d > 0
       THEN {Wrapper(type, toks) :
               type \in {"em", "strong", "del", "link"}, toks \in InlineSeqSet(n - 1, d - 1)}
       ELSE {}

\* the inline token sequences made of exactly n tokens
InlineSeqSet(n, d) ==
  IF n = 0
  THEN {<<>>}
  ELSE UNION {UNION {{<<t>> \o rest : t \in InlineSet(k, d)} :
                     rest \in InlineSeqSet(n - k, d)} :
              k \in 1..n}

InlineDocs(maxInline, maxDepth) ==
  UNION {{<<[type |-> "paragraph", tokens |-> toks]>> :
            toks \in InlineSeqSet(n, maxDepth)} :
         n \in 1..maxInline}

(***************************************************************************)
(* Block tokens                                                            *)
(***************************************************************************)
MaxBlocks == 2

CodeTokens ==
  {[type |-> "code", text |-> t] : t \in {<<>>, <<"x", "\n", " ", "y">>}}
    \cup {[type |-> "code", text |-> t, lang |-> l] :
            t \in {<<>>, <<"x", "\n", " ", "y">>}, l \in {<<>>, <<"j", "s">>}}

SimpleBlocks ==
  CodeTokens
    \cup {[type |-> "hr"], [type |-> "space"], [type |-> "html", text |-> <<"h">>]}
    \cup {[type |-> "heading", depth |-> d, tokens |-> <<[type |-> "text", text |-> <<"a">>]>>] :
            d \in 1..2}
    \cup {[type |-> "paragraph", tokens |-> <<[type |-> "text", text |-> <<"a">>]>>],
          [type |-> "paragraph",
           tokens |-> <<[type |-> "image", href |-> <<"u">>, text |-> <<>>]>>]}

BlockTokens ==
  SimpleBlocks
    \cup {[type |-> "blockquote", tokens |-> <<b>>] :
            b \in {[type |-> "code", text |-> <<"x">>, lang |-> <<"j", "s">>],
                   [type |-> "paragraph", tokens |-> <<[type |-> "text", text |-> <<"a">>]>>]}}

BlockDocs(maxBlocks) ==
  UNION {[1..n -> BlockTokens] : n \in 1..maxBlocks}

(***************************************************************************)
(* Tables: a header row of at least one cell and body rows of that width.  *)
(***************************************************************************)
MaxCols == 2
MaxRows == 1

CellSet ==
  {[tokens |-> <<>>],
   [tokens |-> <<[type |-> "text", text |-> <<"a">>]>>],
   [tokens |-> <<[type |-> "image", href |-> <<"u">>, text |-> <<"i">>]>>]}

TableDocs(maxCols, maxRows) ==
  UNION {UNION {{<<[type |-> "table", header |-> h, rows |-> rs]>> :
                   h \in [1..c -> CellSet], rs \in [1..r -> [1..c -> CellSet]]} :
                r \in 0..maxRows} :
         c \in 1..maxCols}

(***************************************************************************)
(* Ordered lists with a start number.  "3. x" gives start 3 and "0. x"     *)
(* gives start 0; a bullet list has no start number.  The list is the      *)
(* top-level list, or the list nested in an item of the top-level list,    *)
(* which is hoisted when that item is a task of a task list.               *)
(***************************************************************************)
MaxStart == 3
MaxStartItems == 2

ListKinds(maxStart) ==
  {[ordered |-> FALSE], [ordered |-> TRUE]}
    \cup {[ordered |-> TRUE, start |-> s] : s \in 0..maxStart}

ListOfKind(kind, items) ==
  IF Has(kind, "start")
  THEN [type |-> "list", ordered |-> TRUE, start |-> kind.start, items |-> items]
  ELSE [type |-> "list", ordered |-> kind.ordered, items |-> items]

\* the item at a path, alone or owning one list of one plain item
StartItemSet(path, i, maxStart) ==
  LET text == path \o <<Digits[i]>>
      nested == {<<>>}
                  \cup {<<ListOfKind(k, <<ListItem([task |-> FALSE],
                                                  text \o <<"1", "1">>, <<>>)>>)>> :
                          k \in ListKinds(maxStart)}
  IN  {ListItem(f, text, l) : f \in ItemFlags(i), l \in nested}

StartDocs(maxStart, maxItems) ==
  {<<ListOfKind(k, items)>> :
     k \in ListKinds(maxStart),
     items \in UNION {{its \in [1..n -> UNION {StartItemSet(<<>>, i, maxStart) : i \in 1..n}] :
                         \A i \in 1..n : its[i] \in StartItemSet(<<>>, i, maxStart)} :
                      n \in 1..maxItems}}

(***************************************************************************)
(* Paragraphs with images: "a ![x](u) \* ![](v)" and the like.             *)
(***************************************************************************)
MaxMedia == 4

MediaLeaves ==
  {[type |-> "text", text |-> <<"a">>],
   [type |-> "escape", text |-> <<"e">>],
   [type |-> "image", href |-> <<"u">>, text |-> <<"x">>],
   [type |-> "image", href |-> <<"v">>, text |-> <<>>]}

MediaDocs(maxMedia) ==
  UNION {{<<[type |-> "paragraph", tokens |-> toks]>> : toks \in [1..n -> MediaLeaves]} :
         n \in 1..maxMedia}

(***************************************************************************)
(* The program: the lexer's token tree is converted in one call.           *)
(***************************************************************************)
NoDoc ==
  [version |-> 1, type |-> "doc", content |-> <<>>]

InitList ==
  /\ tokens \in ListDocs(MaxItems, MaxDepth)
  /\ doc = NoDoc
  /\ pc = "lexed"

InitTask ==
  /\ tokens \in TaskDocs(MaxTasks)
  /\ doc = NoDoc
  /\ pc = "lexed"

InitInline ==
  /\ tokens \in InlineDocs(MaxInline, MaxInlineDepth)
  /\ doc = NoDoc
  /\ pc = "lexed"

InitBlock ==
  /\ tokens \in BlockDocs(MaxBlocks)
  /\ doc = NoDoc
  /\ pc = "lexed"

InitTable ==
  /\ tokens \in TableDocs(MaxCols, MaxRows)
  /\ doc = NoDoc
  /\ pc = "lexed"

InitStart ==
  /\ tokens \in StartDocs(MaxStart, MaxStartItems)
  /\ doc = NoDoc
  /\ pc = "lexed"

\* block token sequences and paragraphs of inline tokens, both with tokens of
\* types the switches do not name ("space", "html"; "escape")
InitLenient ==
  /\ tokens \in BlockDocs(MaxBlocks) \cup InlineDocs(MaxInline, MaxInlineDepth)
  /\ doc = NoDoc
  /\ pc = "lexed"

InitMedia ==
  /\ tokens \in MediaDocs(MaxMedia)
  /\ doc = NoDoc
  /\ pc = "lexed"

Convert ==
  /\ pc = "lexed"
  /\ doc' = markdownToAdf(tokens)
  /\ pc' = "done"
  /\ UNCHANGED tokens

Next ==
  Convert

(***************************************************************************)
(* Reading a document                                                      *)
(***************************************************************************)
Content(node) ==
  IF Has(node, "content") THEN node.content ELSE <<>>

\* every node of a node sequence, at any depth
NodesOf(nodes) ==
  IF nodes = <<>>
  THEN {}
  ELSE {Head(nodes)} \cup NodesOf(Content(Head(nodes))) \cup NodesOf(Tail(nodes))

\* the texts of the text nodes of a node sequence, in document order
TextsOf(nodes) ==
  IF nodes = <<>>
  THEN <<>>
  ELSE (IF Head(nodes).type = "text"
        THEN <<Head(nodes).text>>
        ELSE TextsOf(Content(Head(nodes))))
       \o TextsOf(Tail(nodes))

DigitOf(c) ==
  CHOOSE i \in 1..Len(Digits) : Digits[i] = c

\* a comes before b in document order: a is a proper prefix of b, or is
\* smaller at the first index where they differ
Before(a, b) ==
  \E k \in 1..Len(b) :
    /\ \A i \in 1..(k - 1) : i <= Len(a) /\ a[i] = b[i]
    /\ \/ k = Len(a) + 1
       \/ k <= Len(a) /\ DigitOf(a[k]) < DigitOf(b[k])

InDocumentOrder(texts) ==
  \A i \in 1..(Len(texts) - 1) : Before(texts[i], texts[i + 1])

IsListNode(node) ==
  node.type \in {"bulletList", "orderedList"}

\* the top-level list token of the document and what it was converted to
TopList ==
  tokens[1]

Out ==
  doc.content

\* the classification as the specification words it: at least one item, and
\* every item has the task flag
AllTasks(list) ==
  Len(list.items) >= 1 /\ \A i \in 1..Len(list.items) : list.items[i].task = TRUE

ListsOf(item) ==
  SelectSeq(item.tokens, LAMBDA t : t.type = "list")

ListNodeType(list) ==
  IF list.ordered THEN "orderedList" ELSE "bulletList"

\* the text of the first text node under a node: the path of its first item
FirstText(node) ==
  TextsOf(<<node>>)[1]

\* C1: no taskList node, at any depth, has a bulletList or orderedList as a
\* direct child; every direct child of a taskList is a taskItem or a taskList.
C1_TaskListChildren ==
  pc = "done" =>
    \A n \in NodesOf(Out) :
      n.type = "taskList" =>
        \A i \in 1..Len(Content(n)) :
          /\ ~IsListNode(n.content[i])
          /\ n.content[i].type \in {"taskItem", "taskList"}

\* a task list with a nested task list was converted and an ordinary list was
\* hoisted out of it
C1_Witness ==
  /\ pc = "done"
  /\ AllTasks(TopList)
  /\ \E n \in NodesOf(Out) :
       n.type = "taskList" /\ \E i \in 1..Len(n.content) : n.content[i].type = "taskList"
  /\ \E k \in 1..Len(Out) : IsListNode(Out[k]) /\ Len(FirstText(Out[k])) >= 5

\* C2: the items of a task list, read in output document order, are in the
\* order of the input: a hoisted list comes after its owner and before every
\* task item that follows the owner in the input.
C2_DocumentOrder ==
  pc = "done" /\ AllTasks(TopList) => InDocumentOrder(TextsOf(Out))

\* C4: a list is converted as a task list iff it has an item and every item
\* is a task; any other list becomes exactly one bulletList/orderedList with
\* one listItem per item, in order, whatever the task flags of the items.
\* The lists nested in those listItems are classified by the same rule.
C4_Classification ==
  pc = "done" =>
    /\ (Out # <<>> /\ Out[1].type = "taskList") <=> AllTasks(TopList)
    /\ ~AllTasks(TopList) =>
         /\ Len(Out) = 1
         /\ Out[1].type = ListNodeType(TopList)
         /\ Len(Out[1].content) = Len(TopList.items)
         /\ \A i \in 1..Len(TopList.items) :
              LET lists == ListsOf(TopList.items[i])
                  node == Out[1].content[i]
              IN  /\ node.type = "listItem"
                  /\ FirstText(node) = <<Digits[i]>>
                  /\ Len(node.content) = 1 + Len(lists)
                  /\ \A j \in 1..Len(lists) :
                       LET nested == node.content[1 + j]
                           kind == IF AllTasks(lists[j]) THEN "taskItem" ELSE "listItem"
                       IN  /\ nested.type = (IF AllTasks(lists[j]) THEN "taskList"
                                              ELSE ListNodeType(lists[j]))
                           /\ Len(nested.content) = Len(lists[j].items)
                           /\ \A c \in 1..Len(nested.content) : nested.content[c].type = kind

\* a list that mixes a task item with an ordinary item was converted, and
\* an item of it holds a nested task list
C4_Witness ==
  /\ pc = "done"
  /\ \E i, j \in 1..Len(TopList.items) : TopList.items[i].task /\ ~TopList.items[j].task
  /\ Len(Out) = 1 /\ IsListNode(Out[1])
  /\ \E i \in 1..Len(Out[1].content) :
       \E c \in 1..Len(Out[1].content[i].content) :
         Out[1].content[i].content[c].type = "taskList"

(***************************************************************************)
(* Reading the input list                                                  *)
(***************************************************************************)
\* a list token as it is recognised in the output: its node type, the text
\* of its first item and its number of items
ListEntry(list) ==
  [kind |-> ListNodeType(list), text |-> list.items[1].tokens[1].text,
   size |-> Len(list.items)]

NodeEntry(node) ==
  [kind |-> node.type, text |-> FirstText(node), size |-> Len(Content(node))]

TaskEntryOf(text) ==
  [kind |-> "taskItem", text |-> text, size |-> 1]

\* the task items and their nested lists, in input order
ExpectedEntries(items) ==
  FlatMapSeq(LAMBDA it : <<TaskEntryOf(it.tokens[1].text)>> \o MapSeq(ListEntry, ListsOf(it)),
             items)

\* the sibling sequence, each taskList replaced by its children
FlattenedEntries(out) ==
  FlatMapSeq(LAMBDA n : IF n.type = "taskList" THEN MapSeq(NodeEntry, n.content)
                        ELSE <<NodeEntry(n)>>,
             out)

\* the path of the item that owns the list whose first item has this path
OwnerOf(text) ==
  SubSeq(text, 1, Len(text) - 2)

OnlyOrdinaryNested(list) ==
  \A i \in 1..Len(list.items) :
    \A j \in 1..Len(ListsOf(list.items[i])) : ~AllTasks(ListsOf(list.items[i])[j])

\* C3 (as amended): in an all-task list whose items carry only ordinary
\* nested lists, every maximal run of task items without an intervening
\* nested list is one non-empty taskList, and every nested list is a sibling
\* placed after the taskList that ends with its owner, with nothing but the
\* owner's earlier nested lists in between.
C3_RunsAndHoistedLists ==
  pc = "done" /\ AllTasks(TopList) /\ OnlyOrdinaryNested(TopList) =>
    /\ Out[1].type = "taskList"
    /\ \A k \in 1..Len(Out) :
         Out[k].type = "taskList" =>
           /\ Len(Out[k].content) >= 1
           /\ \A c \in 1..Len(Out[k].content) : Out[k].content[c].type = "taskItem"
    /\ \A k \in 1..(Len(Out) - 1) :
         ~(Out[k].type = "taskList" /\ Out[k + 1].type = "taskList")
    /\ FlattenedEntries(Out) = ExpectedEntries(TopList.items)

\* C3 (as claimed): moreover every hoisted list is directly after the
\* taskList that ends with its owner.
C3_DirectlyAfterOwner ==
  pc = "done" /\ AllTasks(TopList) /\ OnlyOrdinaryNested(TopList) =>
    /\ C3_RunsAndHoistedLists
    /\ \A k \in 1..Len(Out) :
         IsListNode(Out[k]) =>
           /\ k > 1
           /\ Out[k - 1].type = "taskList"
           /\ FirstText(Out[k - 1].content[Len(Out[k - 1].content)])
                = OwnerOf(FirstText(Out[k]))

\* task1 {1.1, 1.2}, task2 became taskList, bulletList, taskList
C3_Witness ==
  /\ pc = "done"
  /\ AllTasks(TopList) /\ OnlyOrdinaryNested(TopList)
  /\ Len(TopList.items) = 2
  /\ Len(Out) = 3
  /\ Out[1].type = "taskList" /\ Out[2].type = "bulletList" /\ Out[3].type = "taskList"
  /\ Len(Out[2].content) = 2

\* the ordinary lists owned by a task item of the task list, or of a task
\* list nested in it at any depth
HoistedUnder(items) ==
  UNION {UNION {IF AllTasks(ListsOf(items[i])[j])
                THEN HoistedUnder(ListsOf(items[i])[j].items)
                ELSE {ListEntry(ListsOf(items[i])[j])} :
                j \in 1..Len(ListsOf(items[i]))} :
         i \in 1..Len(items)}

ListSiblings ==
  {k \in 1..Len(Out) : Out[k].type # "taskList"}

\* C5 (as amended): only ordinary lists are hoisted, and each is hoisted all
\* the way: an ordinary list under a task item of a task list nested at any
\* depth is a sibling in the sequence returned for the outermost task list.
C5_HoistedToTopLevel ==
  pc = "done" /\ AllTasks(TopList) =>
    /\ \A k \in ListSiblings : IsListNode(Out[k])
    /\ {NodeEntry(Out[k]) : k \in ListSiblings} = HoistedUnder(TopList.items)
    /\ Cardinality(ListSiblings) = Cardinality(HoistedUnder(TopList.items))

\* C5 (as claimed): a list whose owner is in a task list nested in a nested
\* task list is not carried up to the top-level sibling sequence.
C5_ImmediateLevelOnly ==
  pc = "done" /\ AllTasks(TopList) =>
    \A k \in ListSiblings : Len(FirstText(Out[k])) <= 5

\* an ordinary list owned three task lists deep is a top-level sibling
C5_Witness ==
  /\ pc = "done"
  /\ AllTasks(TopList)
  /\ \E k \in ListSiblings : IsListNode(Out[k]) /\ Len(FirstText(Out[k])) >= 7

\* the task lists nested under a task item of the task list, at any depth
NestedTaskListsUnder(items) ==
  UNION {UNION {IF AllTasks(ListsOf(items[i])[j])
                THEN {ListsOf(items[i])[j]}
                       \cup NestedTaskListsUnder(ListsOf(items[i])[j].items)
                ELSE {} :
                j \in 1..Len(ListsOf(items[i]))} :
         i \in 1..Len(items)}

ItemTexts(list) ==
  MapSeq(LAMBDA it : it.tokens[1].text, list.items)

TaskItemTexts(node) ==
  MapSeq(FirstText, SelectSeq(node.content, LAMBDA n : n.type = "taskItem"))

\* C6: a task list nested under a task item is a taskList node that is a
\* direct child of the taskList holding the owner's taskItem, after that
\* taskItem with at most the owner's earlier nested task lists in between,
\* and its taskItems are the nested items in order.
C6_NestedTaskListAfterOwner ==
  pc = "done" /\ AllTasks(TopList) =>
    \A l \in NestedTaskListsUnder(TopList.items) :
      \E p \in NodesOf(Out) :
        /\ p.type = "taskList"
        /\ \E c, m \in 1..Len(p.content) :
             /\ c < m
             /\ p.content[c].type = "taskItem"
             /\ FirstText(p.content[c]) = OwnerOf(ItemTexts(l)[1])
             /\ \A x \in (c + 1)..m : p.content[x].type = "taskList"
             /\ TaskItemTexts(p.content[m]) = ItemTexts(l)
             /\ \A x \in 1..Len(p.content[m].content) :
                  p.content[m].content[x].type \in {"taskItem", "taskList"}

NoNestedLists(list) ==
  \A i \in 1..Len(list.items) : ListsOf(list.items[i]) = <<>>

\* C7: a list of n >= 1 task items without nested lists becomes exactly one
\* taskList with n taskItems in input order; a taskItem is DONE iff its
\* item's checked flag is true and TODO otherwise, also when the flag is
\* absent; it has a localId and holds its text nodes directly, with no
\* paragraph around them.
C7_FlatTaskList ==
  pc = "done" /\ AllTasks(TopList) /\ NoNestedLists(TopList) =>
    /\ Len(Out) = 1
    /\ Out[1].type = "taskList"
    /\ Has(Out[1].attrs, "localId")
    /\ Len(Out[1].content) = Len(TopList.items)
    /\ \A i \in 1..Len(TopList.items) :
         LET item == TopList.items[i]
             node == Out[1].content[i]
         IN  /\ node.type = "taskItem"
             /\ Has(node.attrs, "localId")
             /\ node.attrs.state = "DONE" <=> (Has(item, "checked") /\ item.checked = TRUE)
             /\ node.attrs.state \in {"DONE", "TODO"}
             /\ Len(node.content) >= 1
             /\ \A c \in 1..Len(node.content) : node.content[c].type = "text"
             /\ node.content[1].text = <<Digits[i]>>

\* a list with an item without checked flag and an item that is checked was
\* converted
C7_Witness ==
  /\ pc = "done"
  /\ AllTasks(TopList) /\ NoNestedLists(TopList)
  /\ \E i, j \in 1..Len(TopList.items) :
       /\ ~Has(TopList.items[i], "checked")
       /\ Has(TopList.items[j], "checked") /\ TopList.items[j].checked
       /\ Out[1].content[i].attrs.state = "TODO"
       /\ Out[1].content[j].attrs.state = "DONE"

MarkTypes(node) ==
  MapSeq(LAMBDA m : m.type, node.marks)

\* C8: the marks of a text node hold at most one mark of each type, and
\* with a code mark every other mark is a link mark.
C8_Marks ==
  pc = "done" =>
    \A n \in NodesOf(Out) :
      n.type = "text" /\ Has(n, "marks") =>
        /\ \A i, j \in 1..Len(n.marks) : i # j => n.marks[i].type # n.marks[j].type
        /\ (\E i \in 1..Len(n.marks) : n.marks[i].type = "code") =>
             \A i \in 1..Len(n.marks) : n.marks[i].type \in {"code", "link"}

\* a code span in a link in strong text became a text node with the link and
\* the code mark
C8_Witness ==
  /\ pc = "done"
  /\ tokens[1].type = "paragraph"
  /\ tokens[1].tokens[1].type = "strong"
  /\ \E n \in NodesOf(Out) :
       n.type = "text" /\ Has(n, "marks") /\ MarkTypes(n) = <<"link", "code">>

\* C9: no document holds a text node whose text is the empty string.
C9_NoEmptyText ==
  pc = "done" =>
    \A n \in NodesOf(Out) : n.type = "text" => n.text # <<>>

IsCell(node) ==
  node.type \in {"tableHeader", "tableCell"}

\* the rows of the table token, the header row first
TableRows(table) ==
  <<table.header>> \o table.rows

\* C10: the direct children of a table are tableRows, every cell, header or
\* body, has content, and a cell without inline tokens holds exactly one
\* paragraph with exactly one text node whose text is one space.
C10_TableCells ==
  pc = "done" /\ tokens[1].type = "table" =>
    /\ Out[1].type = "table"
    /\ \A r \in 1..Len(Out[1].content) : Out[1].content[r].type = "tableRow"
    /\ \A n \in NodesOf(Out) : IsCell(n) => Len(Content(n)) >= 1
    /\ \A r \in 1..Len(TableRows(tokens[1])) :
         \A c \in 1..Len(TableRows(tokens[1])[r]) :
           TableRows(tokens[1])[r][c].tokens = <<>> =>
             Out[1].content[r].content[c].content
               = <<[type |-> "paragraph",
                    content |-> <<[type |-> "text", text |-> <<" ">>]>>]>>

\* the list tokens of a document that are converted as ordinary lists: the
\* top-level list unless it is a task list, and every list nested in an item
OrdinaryListTokens ==
  (IF IsTaskList(TopList) THEN {} ELSE {TopList})
    \cup {ListsOf(TopList.items[i])[j] :
            <<i, j>> \in {p \in (1..Len(TopList.items)) \X (1..1) :
                            p[2] <= Len(ListsOf(TopList.items[p[1]]))}}

DeclaredStart(list) ==
  IF Has(list, "start") THEN list.start ELSE 1

\* C11: every ordered list token that is not a task list, top-level, nested
\* in a list item or hoisted out of a task item, becomes an orderedList node
\* whose attrs.order is the declared start number, for every declared start
\* number, and 1 when none is declared; a bulletList node carries no attrs.
C11_OrderIsStart ==
  pc = "done" =>
    \A l \in OrdinaryListTokens :
      \E n \in NodesOf(Out) :
        /\ n.type = ListNodeType(l)
        /\ TextsOf(<<n>>) # <<>>
        /\ FirstText(n) = ItemTexts(l)[1]
        /\ IF l.ordered
           THEN Has(n, "attrs") /\ n.attrs.order = DeclaredStart(l)
           ELSE ~Has(n, "attrs")

\* the token types the switch of inlineToAdf names
InlineTypes ==
  {"text", "em", "strong", "del", "link", "codespan", "br"}

RecognizedBlocks(toks) ==
  SelectSeq(toks, LAMBDA t : t.type \in BlockTypes)

RecognizedInlines(toks) ==
  SelectSeq(toks, LAMBDA t : t.type \in InlineTypes)

\* a document that is one paragraph without images
OneParagraph ==
  /\ Len(tokens) = 1
  /\ tokens[1].type = "paragraph"
  /\ \A i \in 1..Len(tokens[1].tokens) : tokens[1].tokens[i].type # "image"

\* one unit per node a recognized token can account for: the children of
\* recognized type of an em, strong or del token, and one for any other
\* recognized token
RecognizedSources(toks) ==
  FlatMapSeq(LAMBDA t : IF t.type \in {"em", "strong", "del"}
                        THEN RecognizedInlines(ChildTokens(t))
                        ELSE IF t.type \in InlineTypes THEN <<t>> ELSE <<>>,
             toks)

\* C12 (as stated): an inline token of unrecognized type contributes no output
\* node, wherever it stands: a paragraph has at most one inline node per token
\* of recognized type (per child of recognized type, for em, strong and del).
C12_NoNodeFromUnrecognized ==
  (pc = "done" /\ OneParagraph) =>
    Len(Out[1].content) <= Len(RecognizedSources(tokens[1].tokens))

\* C12 (as amended): a top-level block token of unrecognized type yields no
\* node and the document is the one converted from the sequence without such
\* tokens (here every recognized block token yields exactly one node); an
\* inline token of unrecognized type that is an element of the sequence handed
\* to inlineToAdf yields no node and the paragraph's content is the one built
\* from the sequence without such tokens.  (A child of an em, strong or del
\* token becomes a text node whatever its type.)
C12_UnrecognizedDropped ==
  pc = "done" =>
    /\ Out = markdownToAdf(RecognizedBlocks(tokens)).content
    /\ Len(Out) = Len(RecognizedBlocks(tokens))
    /\ \A i \in 1..Len(Out) : Out[i].type # "null"
    /\ OneParagraph =>
         Out[1].content = inlineToAdf(RecognizedInlines(tokens[1].tokens))

\* an html block before a horizontal rule: the rule is the whole document
C12_Witness ==
  /\ pc = "done"
  /\ Len(tokens) = 2
  /\ tokens[1].type = "html"
  /\ tokens[2].type = "hr"
  /\ Out = <<[type |-> "rule"]>>

\* the node types a paragraph's tokens call for: a mediaSingle at every image
\* and a paragraph where a run of other tokens begins
SplitPattern(toks) ==
  FlatSeq([i \in 1..Len(toks) |->
             IF toks[i].type = "image"
             THEN <<"mediaSingle">>
             ELSE IF i = 1 \/ toks[i - 1].type = "image"
                  THEN <<"paragraph">>
                  ELSE <<>>])

NodeTypes(nodes) ==
  MapSeq(LAMBDA n : n.type, nodes)

MediaUrls(nodes) ==
  MapSeq(LAMBDA n : n.content[1].attrs.url,
         SelectSeq(nodes, LAMBDA n : n.type = "mediaSingle"))

ImageHrefs(toks) ==
  MapSeq(LAMBDA t : t.href, SelectSeq(toks, LAMBDA t : t.type = "image"))

\* C13: a paragraph's tokens give one mediaSingle per image token, in input
\* order, and one paragraph per maximal run of other tokens, at the run's
\* position, so that no two paragraphs are adjacent; the text tokens all end
\* up in the paragraphs; one image alone gives one mediaSingle and no
\* paragraph.
C13_MediaSplitting ==
  pc = "done" =>
    LET toks == tokens[1].tokens
    IN  /\ NodeTypes(Out) = SplitPattern(toks)
        /\ MediaUrls(Out) = ImageHrefs(toks)
        /\ \A k \in 1..(Len(Out) - 1) :
             ~(Out[k].type = "paragraph" /\ Out[k + 1].type = "paragraph")
        /\ TextsOf(Out) = MapSeq(LAMBDA t : t.text,
                                 SelectSeq(toks, LAMBDA t : t.type = "text"))
        /\ (Len(toks) = 1 /\ toks[1].type = "image") =>
             (Len(Out) = 1 /\ Out[1].type = "mediaSingle")

\* text, image, text: a paragraph on either side of the mediaSingle
C13_Witness ==
  /\ pc = "done"
  /\ NodeTypes(tokens[1].tokens) = <<"text", "image", "text">>
  /\ NodeTypes(Out) = <<"paragraph", "mediaSingle", "paragraph">>

\* the list tokens owned by a task item, at any depth under a list token
RECURSIVE ListsInTaskItems(_)
ListsInTaskItems(list) ==
  UNION {UNION {(IF list.items[i].task THEN {ListsOf(list.items[i])[j]} ELSE {})
                  \cup ListsInTaskItems(ListsOf(list.items[i])[j]) :
                j \in 1..Len(ListsOf(list.items[i]))} :
         i \in 1..Len(list.items)}

\* C14: no list is lost: every list token owned by a task item, at any depth
\* and also in a task list nested in an item of an ordinary list, is a
\* taskList, bulletList or orderedList node of the document, the one that
\* begins with the list's first item.
C14_NoListLost ==
  pc = "done" =>
    \A l \in ListsInTaskItems(TopList) :
      \E n \in NodesOf(Out) :
        /\ n.type \in {"taskList", "bulletList", "orderedList"}
        /\ TextsOf(<<n>>) # <<>>
        /\ FirstText(n) = ItemTexts(l)[1]

SpecList ==
  InitList /\ [][Next]_vars

SpecTask ==
  InitTask /\ [][Next]_vars

SpecInline ==
  InitInline /\ [][Next]_vars

SpecBlock ==
  InitBlock /\ [][Next]_vars

SpecTable ==
  InitTable /\ [][Next]_vars

SpecStart ==
  InitStart /\ [][Next]_vars

SpecLenient ==
  InitLenient /\ [][Next]_vars

SpecMedia ==
  InitMedia /\ [][Next]_vars

====
